---- MODULE Spec2Model ----
(***************************************************************************)
(* Model of the Pocket Ledger component (src/src/App.jsx): the three       *)
(* useState cells (expenses, newExpense, error), the memoised total, and   *)
(* the three event handlers handleInputChange, addExpense, deleteExpense.  *)
(*                                                                         *)
(* Text is a sequence of one-character strings.  A JavaScript number is    *)
(* a record [nan, v]: NaN, or v units of 1/Scale (the amount input has     *)
(* step="0.01"); every text of the input alphabet has at most two          *)
(* fractional digits, so the representation is exact on it.                *)
(***************************************************************************)
EXTENDS Integers, Sequences, FiniteSets, TLC

VARIABLES expenses, newExpense, error, totalExpenses, now, last

vars == <<expenses, newExpense, error, totalExpenses, now, last>>

\* ---------------------------------------------------------------- bounds
MaxLedger == 2
MaxClock == 1

\* Resolution of the number representation: amounts are counted in 1/Scale.
Scale == 100

\* ------------------------------------------------------- values and text
NaN == [nan |-> TRUE, v |-> 0]
Num(v) == [nan |-> FALSE, v |-> v]
isNaN(x) == x.nan

\* a + b and a <= b on numbers: NaN absorbs a sum and fails a comparison.
Plus(a, b) == IF isNaN(a) \/ isNaN(b) THEN NaN ELSE Num(a.v + b.v)
Leq(a, b) == ~isNaN(a) /\ ~isNaN(b) /\ a.v <= b.v

Null == "null"
ErrorMsg == "Please enter a valid description and a positive amount."

Digits == <<"0", "1", "2", "3", "4", "5", "6", "7", "8", "9">>

IsDigit(c) == \E i \in DOMAIN Digits : Digits[i] = c

DigitVal(c) == (CHOOSE i \in DOMAIN Digits : Digits[i] = c) - 1

IsSpace(c) == c = " "

RECURSIVE TrimStart(_)
TrimStart(s) ==
    IF s # <<>> /\ IsSpace(Head(s)) THEN TrimStart(Tail(s)) ELSE s

RECURSIVE DigitPrefix(_)
DigitPrefix(s) ==
    IF s # <<>> /\ IsDigit(Head(s)) THEN <<Head(s)>> \o DigitPrefix(Tail(s)) ELSE <<>>

RECURSIVE DigitsToInt(_)
DigitsToInt(ds) ==
    IF ds = <<>> THEN 0
    ELSE DigitsToInt(SubSeq(ds, 1, Len(ds) - 1)) * 10 + DigitVal(ds[Len(ds)])

\* The fractional digits as a count of 1/Scale units.
FractionUnits(fs) ==
    (IF Len(fs) >= 1 THEN DigitVal(fs[1]) * (Scale \div 10) ELSE 0)
    + (IF Len(fs) >= 2 THEN DigitVal(fs[2]) * (Scale \div 100) ELSE 0)

\* parseFloat(text): skips leading white space, reads an optional sign, the
\* longest decimal literal that prefixes the rest, and ignores what follows;
\* NaN when no digit was read.
parseFloat(s) ==
    LET t == TrimStart(s)
        signed == t # <<>> /\ Head(t) \in {"+", "-"}
        u == IF signed THEN Tail(t) ELSE t
        ip == DigitPrefix(u)
        r == SubSeq(u, Len(ip) + 1, Len(u))
        fp == IF r # <<>> /\ Head(r) = "." THEN DigitPrefix(Tail(r)) ELSE <<>>
        mag == DigitsToInt(ip) * Scale + FractionUnits(fp)
    IN  IF ip = <<>> /\ fp = <<>> THEN NaN
        ELSE IF signed /\ Head(t) = "-" THEN Num(0 - mag) ELSE Num(mag)

RECURSIVE IntToDigits(_)
IntToDigits(n) ==
    IF n < 10 THEN <<Digits[n + 1]>>
    ELSE IntToDigits(n \div 10) \o <<Digits[(n % 10) + 1]>>

\* String(number): the shortest decimal text of the number.
NumberToString(x) ==
    IF isNaN(x) THEN <<"N", "a", "N">>
    ELSE LET mag == IF x.v < 0 THEN 0 - x.v ELSE x.v
             fr == mag % Scale
             hi == fr \div (Scale \div 10)
             lo == (fr \div (Scale \div 100)) % 10
             frac == IF fr = 0 THEN <<>>
                     ELSE IF lo = 0 THEN <<".", Digits[hi + 1]>>
                     ELSE <<".", Digits[hi + 1], Digits[lo + 1]>>
         IN  (IF x.v < 0 THEN <<"-">> ELSE <<>>) \o IntToDigits(mag \div Scale) \o frac

\* ------------------------------------------------------------ input sets
NameTexts == { <<>>, <<"L">> }

AmountTexts ==
    { <<>>, <<"a", "b", "c">>, <<"-", "5">>, <<"0">>,
      <<"1", "2", ".", "5", "0">>, <<"3", "a">> }

Fields == {"name", "amount"}

TextsOf(f) == IF f = "name" THEN NameTexts ELSE AmountTexts

Ids == 0 .. MaxClock

\* ------------------------------------------------------------------ state
\* useState([]), useState({ name: '', amount: '' }), useState(null); the
\* memoised total of the first render; the millisecond clock Date.now()
\* reads; `last` observes the event most recently dispatched (for a delete,
\* also whether it repeats the delete dispatched just before it).
Init ==
    /\ expenses = <<>>
    /\ newExpense = [name |-> <<>>, amount |-> <<>>]
    /\ error = Null
    /\ totalExpenses = Num(0)
    /\ now = 0
    /\ last = [op |-> "init"]

\* x || 0 on a number: NaN and 0 are falsy.
OrZero(x) == IF isNaN(x) \/ x.v = 0 THEN Num(0) ELSE x

\* expenses.reduce((acc, expense) => acc + (parseFloat(expense.amount) || 0), 0);
\* parseFloat converts its argument to text first.
RECURSIVE reduceTotal(_)
reduceTotal(list) ==
    IF list = <<>> THEN Num(0)
    ELSE Plus(reduceTotal(SubSeq(list, 1, Len(list) - 1)),
              OrZero(parseFloat(NumberToString(list[Len(list)].amount))))

\* Faulty variant: the memo never recomputes (a dependency array without expenses).
MemoNoDeps(replaced, list) == totalExpenses

\* useMemo(..., [expenses]): the cached total is kept while the expenses
\* array is the same object and recomputed once a setExpenses call replaced it.
Memo(replaced, list) == IF replaced THEN reduceTotal(list) ELSE totalExpenses

\* Faulty variant: the update drops the spread of prev, so the other field is lost.
SetFieldNoSpread(prev, f, v) == [[name |-> <<>>, amount |-> <<>>] EXCEPT ![f] = v]

\* prev => ({ ...prev, [name]: value })
SetField(prev, f, v) == [prev EXCEPT ![f] = v]

\* Faulty variant: the amount test is < 0, so a zero amount passes.
ValidationFailsZeroPasses(name, validatedAmount) ==
    \/ name = <<>>
    \/ isNaN(validatedAmount)
    \/ (validatedAmount.v < 0)

\* Faulty variant: the description is not tested.
ValidationFailsNoName(name, validatedAmount) ==
    \/ isNaN(validatedAmount)
    \/ Leq(validatedAmount, Num(0))

\* !name || isNaN(validatedAmount) || validatedAmount <= 0
ValidationFails(name, validatedAmount) ==
    \/ name = <<>>
    \/ isNaN(validatedAmount)
    \/ Leq(validatedAmount, Num(0))

\* { id: Date.now(), name: name, amount: validatedAmount, timestamp: Date.now() }
\* t1 and t2 are the results of the two clock reads, in order.
newExpenseData(name, validatedAmount, t1, t2) ==
    [id |-> t1, name |-> name, amount |-> validatedAmount, timestamp |-> t2]

\* prev => [newExpenseData, ...prev]
Prepend(item, prev) == <<item>> \o prev

\* Faulty variant: the filter keeps the matching entries (=== for !==).
RECURSIVE FilterKeepMatching(_, _)
FilterKeepMatching(prev, id) ==
    IF prev = <<>> THEN <<>>
    ELSE IF Head(prev).id = id THEN <<Head(prev)>> \o FilterKeepMatching(Tail(prev), id)
    ELSE FilterKeepMatching(Tail(prev), id)

\* Faulty variant: only the first matching entry is removed (findIndex and splice).
RECURSIVE RemoveFirstMatch(_, _)
RemoveFirstMatch(prev, id) ==
    IF prev = <<>> THEN <<>>
    ELSE IF Head(prev).id = id THEN Tail(prev)
    ELSE <<Head(prev)>> \o RemoveFirstMatch(Tail(prev), id)

\* prev => prev.filter(exp => exp.id !== id)
RECURSIVE FilterOut(_, _)
FilterOut(prev, id) ==
    IF prev = <<>> THEN <<>>
    ELSE IF Head(prev).id # id THEN <<Head(prev)>> \o FilterOut(Tail(prev), id)
    ELSE FilterOut(Tail(prev), id)

\* ---------------------------------------------------------------- actions
\* The clock advances by one millisecond.
Tick ==
    /\ now < MaxClock
    /\ now' = now + 1
    /\ last' = [op |-> "tick"]
    /\ UNCHANGED <<expenses, newExpense, error, totalExpenses>>

\* Faulty variant: an edit also clears the validation message.
handleInputChangeClearsError(f, v) ==
    /\ newExpense' = SetField(newExpense, f, v)
    /\ totalExpenses' = Memo(FALSE, expenses)
    /\ error' = Null
    /\ last' = [op |-> "edit", field |-> f, value |-> v]
    /\ UNCHANGED <<expenses, now>>

\* onChange of the input called f, holding text v.
handleInputChange(f, v) ==
    /\ newExpense' = SetField(newExpense, f, v)
    /\ totalExpenses' = Memo(FALSE, expenses)
    /\ last' = [op |-> "edit", field |-> f, value |-> v]
    /\ UNCHANGED <<expenses, error, now>>

\* onSubmit of the form.  The two Date.now() calls of a successful submit
\* read the clock one after the other: the second reads the same
\* millisecond as the first or the next one.
addExpense ==
    LET name == newExpense.name
        amount == newExpense.amount
        validatedAmount == parseFloat(amount)
    IN  /\ last' = [op |-> "submit"]
        /\ IF ValidationFails(name, validatedAmount)
           THEN /\ error' = ErrorMsg
                /\ totalExpenses' = Memo(FALSE, expenses)
                /\ UNCHANGED <<expenses, newExpense, now>>
           ELSE /\ Len(expenses) < MaxLedger
                /\ \E t2 \in {now, now + 1} :
                      /\ t2 <= MaxClock
                      /\ expenses' =
                            Prepend(newExpenseData(name, validatedAmount, now, t2), expenses)
                      /\ now' = t2
                /\ newExpense' = [name |-> <<>>, amount |-> <<>>]
                /\ error' = Null
                /\ totalExpenses' = Memo(TRUE, expenses')

\* deleteExpense(id); the list's buttons pass expense.id, the function
\* takes any id.
deleteExpense(id) ==
    /\ expenses' = FilterOut(expenses, id)
    /\ totalExpenses' = Memo(TRUE, expenses')
    /\ last' = [op |-> "delete", id |-> id,
                repeat |-> (last.op = "delete" /\ last.id = id)]
    /\ UNCHANGED <<newExpense, error, now>>

Next ==
    \/ Tick
    \/ \E f \in Fields : \E v \in TextsOf(f) : handleInputChange(f, v)
    \/ addExpense
    \/ \E id \in Ids : deleteExpense(id)

Spec == Init /\ [][Next]_vars

\* ------------------------------------------------------ claim vocabulary
EmptyDraft == [name |-> <<>>, amount |-> <<>>]

\* The draft d is one a submit must reject: empty name, or an amount that
\* does not parse to a number, or one that parses to a number <= 0.
InvalidDraft(d) ==
    LET a == parseFloat(d.amount)
    IN  d.name = <<>> \/ a.nan \/ a.v <= 0

HasId(list, id) == \E i \in DOMAIN list : list[i].id = id

RemoveAt(list, i) == SubSeq(list, 1, i - 1) \o SubSeq(list, i + 1, Len(list))

RECURSIVE SumAmounts(_)
SumAmounts(list) ==
    IF list = <<>> THEN 0 ELSE Head(list).amount.v + SumAmounts(Tail(list))

RECURSIVE IsSubseq(_, _)
IsSubseq(a, b) ==
    IF a = <<>> THEN TRUE
    ELSE IF b = <<>> THEN FALSE
    ELSE IF Head(a) = Head(b) THEN IsSubseq(Tail(a), Tail(b))
    ELSE IsSubseq(a, Tail(b))

\* ----------------------------------------------------------------- claims
\* C1: a submit whose draft has an empty name, or an amount that does not
\* parse to a number, or a parsed amount <= 0, sets the validation error and
\* leaves the ledger exactly as it was.
C1_InvalidSubmitRejected ==
    [][(last'.op = "submit" /\ InvalidDraft(newExpense))
          => (error' = ErrorMsg /\ expenses' = expenses)]_vars

\* A failed submit of a named draft with amount "-5" over a non-empty ledger.
C1_Witness ==
    /\ last.op = "submit"
    /\ error = ErrorMsg
    /\ expenses # <<>>
    /\ newExpense = [name |-> <<"L">>, amount |-> <<"-", "5">>]

\* C2: a submit of a valid draft yields one new expense (name verbatim,
\* amount the parsed number, id and timestamp both the current instant) in
\* front of the previous ledger, resets the draft and clears the error.
C2_ValidSubmitPrepends ==
    [][(last'.op = "submit" /\ ~InvalidDraft(newExpense))
          => /\ expenses' = <<[id |-> now, name |-> newExpense.name,
                               amount |-> parseFloat(newExpense.amount),
                               timestamp |-> now]>> \o expenses
             /\ newExpense' = EmptyDraft
             /\ error' = Null]_vars

\* C3: delete(id) for an id present in the ledger removes exactly one entry,
\* the one with that id, and keeps the others in their order.
C3_DeleteRemovesExactlyOne ==
    [][(last'.op = "delete" /\ HasId(expenses, last'.id))
          => \E i \in DOMAIN expenses :
                /\ expenses[i].id = last'.id
                /\ expenses' = RemoveAt(expenses, i)]_vars

\* C4: the total is the sum of the amounts of the entries currently in the
\* ledger (0 for the empty ledger) in every reachable state.
C4_TotalIsSum ==
    /\ ~totalExpenses.nan
    /\ totalExpenses.v = SumAmounts(expenses)
    /\ (expenses = <<>> => totalExpenses.v = 0)

\* After a delete, a ledger of 12.50 alone shows the total 12.50.
C4_Witness ==
    /\ last.op = "delete"
    /\ Len(expenses) = 1
    /\ expenses[1].amount.v = 1250
    /\ totalExpenses.v = 1250

\* C5: delete(id) for an id no entry has leaves the ledger unchanged and
\* sets no validation error.
C5_DeleteAbsentIsNoOp ==
    [][(last'.op = "delete" /\ ~HasId(expenses, last'.id))
          => (expenses' = expenses /\ error' = error)]_vars

\* A delete of an id that was absent, with entries left in the ledger.
C5_Witness ==
    /\ last.op = "delete"
    /\ ~last.repeat
    /\ Len(expenses) = MaxLedger
    /\ ~HasId(expenses, last.id)
    /\ error = Null

\* C6: delete(id) dispatched immediately after delete(id) changes nothing:
\* the state after both is the state after the first.
C6_DeleteIdempotent ==
    [][(last'.op = "delete" /\ last'.repeat)
          => UNCHANGED <<expenses, newExpense, error, totalExpenses, now>>]_vars

\* The same delete has been dispatched twice in a row, entries remain.
C6_Witness ==
    /\ last.op = "delete"
    /\ last.repeat
    /\ expenses # <<>>

\* C7: updateField(fieldName, value) writes value to draft[fieldName] and
\* changes nothing else: the other field, the ledger and the error are kept.
C7_EditWritesOneField ==
    [][last'.op = "edit"
          => /\ DOMAIN newExpense' = Fields
             /\ newExpense'[last'.field] = last'.value
             /\ \A g \in Fields \ {last'.field} : newExpense'[g] = newExpense[g]
             /\ expenses' = expenses
             /\ error' = error]_vars

\* Non-numeric text was typed in the amount field while a name, an error and
\* a ledger were present.
C7_Witness ==
    /\ last.op = "edit"
    /\ last.field = "amount"
    /\ last.value = <<"a", "b", "c">>
    /\ newExpense = [name |-> <<"L">>, amount |-> <<"a", "b", "c">>]
    /\ error = ErrorMsg
    /\ expenses # <<>>

\* C8: a validation error that is set stays set through every step except a
\* successful submit, and a successful submit clears it.
C8_ErrorClearedOnlyBySuccess ==
    [][error # Null
          => ((error' = Null) <=> (last'.op = "submit" /\ ~InvalidDraft(newExpense)))]_vars

\* The error is still shown after an edit made the draft valid.
C8_Witness ==
    /\ error = ErrorMsg
    /\ last.op = "edit"
    /\ ~InvalidDraft(newExpense)

\* C9: no two ledger entries share an id.
C9_UniqueIds ==
    \A i, j \in DOMAIN expenses : expenses[i].id = expenses[j].id => i = j

\* C10: every entry has a non-empty name and a numeric amount > 0, and no
\* step changes an entry: a step only removes entries or puts one in front.
C10_EntriesValidAndImmutable ==
    /\ [](\A i \in DOMAIN expenses :
             /\ expenses[i].name # <<>>
             /\ ~expenses[i].amount.nan
             /\ expenses[i].amount.v > 0)
    /\ [][LET kept == IF Len(expenses') > Len(expenses)
                      THEN Tail(expenses') ELSE expenses'
          IN  IsSubseq(kept, expenses)]_vars

\* An entry created from the draft "L" / "3a" is the survivor of a delete.
C10_Witness ==
    /\ last.op = "delete"
    /\ Len(expenses) = 1
    /\ expenses[1].name = <<"L">>
    /\ expenses[1].amount.v = 300

====
